---- MODULE Spec2Model ----
(***************************************************************************)
(* Model of the Sync class (mongo -> elastic synchronisation): the         *)
(* startSync orchestration, the snapshot loader (initDbSync,               *)
(* createBulkDataOnElastic), the change-feed consumer (initWatcher) and    *)
(* the event translator (generateOperation and the four single-document    *)
(* calls on the elastic client).                                           *)
(*                                                                         *)
(* The two stores are modelled by what the calls made by the code do to    *)
(* them: the source store is a listing plus the documents of each          *)
(* collection, the target store maps every index name to "absent" or to    *)
(* its documents keyed by string id.                                       *)
(***************************************************************************)
EXTENDS Integers, Sequences, FiniteSets

\* ------------------------------------------------------------------ bounds

\* Number of change events the feed delivers in one run.
MaxEvents == 2

\* Number of times the caller calls initialSync.
MaxRuns == 2

\* Number of writes other clients make to the source during one run.
MaxWrites == 2

\* Number of documents of the largest bulk body.
MaxBatch == 3

\* ------------------------------------------------------------- value sets

\* option.prefix (any non-empty string; docker.ts requires one).
Prefix == "sync"

\* Native document identifiers of the source: a native type and the string
\* that toString() yields for the value.
OidA == [type |-> "ObjectId", str |-> "a1"]
StrB == [type |-> "string", str |-> "b2"]
Num0 == [type |-> "number", str |-> "0"]
NoId == [type |-> "undefined", str |-> "undefined"]
Ids == {OidA, StrB, Num0}

\* _id.toString(): the string form of a native identifier.
toString(id) == [type |-> "string", str |-> id.str]

\* JavaScript truthiness of an identifier (if (id) ...): the number 0 and
\* the empty string are falsy, undefined is falsy.
Truthy(id) ==
    /\ id.type # "undefined"
    /\ ~(id.type = "number" /\ id.str = "0")
    /\ ~(id.type = "string" /\ id.str = "")

\* Document fields besides _id: 0 stands for "field absent".
FieldNames == {"status", "note"}
NoFields == [status |-> 0, note |-> 0]
FieldsA == [status |-> 1, note |-> 1]
FieldsB == [status |-> 2, note |-> 0]

\* Collection names of the source (two of them differ only in case).
Colls == {"Orders", "orders", "pages"}

\* String.prototype.toLowerCase on the collection names of the model.
toLowerCase(s) == IF s = "Orders" THEN "orders" ELSE s

\* Keys of the documents of an index: the string ids, and two ids of the
\* kind the target store generates itself when a write carries no id.
StrIds == {id.str : id \in Ids}
AutoIds == {"gen1", "gen2"}
EsKeys == StrIds \cup AutoIds

\* A document slot of an index.
NoDoc == [present |-> FALSE, fields |-> NoFields]
StoredDoc(f) == [present |-> TRUE, fields |-> f]

\* ---------------------------------------------------------- Index Naming

getPrefix(prefix, collName) == <<prefix, "__", toLowerCase(collName)>>

IndexNames == {getPrefix(Prefix, c) : c \in Colls}

AbsentIndex == [exists |-> FALSE, docs |-> [k \in EsKeys |-> NoDoc]]
EmptyIndex == [exists |-> TRUE, docs |-> [k \in EsKeys |-> NoDoc]]

\* --------------------------------------------------------- target store

\* The body handed to a single-document write: the fields, and whether the
\* object still carries the _id property.
Body(hasId, f) == [hasId |-> hasId, fields |-> f]

\* What a call on the client returns: the new store and "ok" or "throw".
Ret(store, outcome) == [es |-> store, outcome |-> outcome]

\* The index after an implicit creation on first write.
Created(store, index) ==
    IF store[index].exists THEN store ELSE [store EXCEPT ![index] = EmptyIndex]

PutDoc(store, index, key, f) ==
    [Created(store, index) EXCEPT ![index].docs[key] = StoredDoc(f)]

\* doc merge of a partial update: fields of the request replace the stored
\* ones, fields the request does not carry stay.
MergeFields(old, new) ==
    [k \in FieldNames |-> IF new[k] # 0 THEN new[k] ELSE old[k]]

\* ESclient.index with an auto-generated id: a further document per call.
FreeAutoIds(store, index) ==
    {k \in AutoIds : ~Created(store, index)[index].docs[k].present}

EsIndexAutoId(store, index, id, body) ==
    IF body.hasId THEN Ret(Created(store, index), "throw")
    ELSE IF FreeAutoIds(store, index) = {} THEN Ret(store, "ok")
    ELSE Ret(PutDoc(store, index,
                    IF "gen1" \in FreeAutoIds(store, index) THEN "gen1" ELSE "gen2",
                    body.fields), "ok")

\* ESclient.index({index, id, document}): the document is stored under the
\* string form of id, replacing what was there; a document that carries the
\* metadata field _id is rejected (after the index was created).
EsIndex(store, index, id, body) ==
    IF body.hasId THEN Ret(Created(store, index), "throw")
    ELSE Ret(PutDoc(store, index, toString(id).str, body.fields), "ok")

\* ESclient.update({index, id, doc, doc_as_upsert: true}): a partial update
\* merged into the stored document, or the document itself when none is
\* stored.
EsUpdate(store, index, id, body) ==
    LET key == toString(id).str
        cur == Created(store, index)[index].docs[key]
    IN  IF body.hasId THEN Ret(Created(store, index), "throw")
        ELSE IF cur.present
        THEN Ret(PutDoc(store, index, key, MergeFields(cur.fields, body.fields)), "ok")
        ELSE Ret(PutDoc(store, index, key, body.fields), "ok")

\* ESclient.delete({index, id}): a missing index or document is a 404
\* response, which the client raises as an error.
EsDelete(store, index, id) ==
    LET key == toString(id).str
    IN  IF store[index].exists /\ store[index].docs[key].present
        THEN Ret([store EXCEPT ![index].docs[key] = NoDoc], "ok")
        ELSE Ret(store, "throw")

\* ESclient.indices.delete({index, ignore_unavailable: true}).
EsIndicesDelete(store, index) ==
    Ret([store EXCEPT ![index] = AbsentIndex], "ok")

\* ESclient.count({index}).
EsCount(store, index) ==
    Cardinality({k \in EsKeys : store[index].docs[k].present})


\* ------------------------------------------------- calls of the Sync class

\* An index deletion without ignore_unavailable: a missing index is an error.
dropIndexOnElastic_strict(store, index) ==
    IF store[index].exists THEN EsIndicesDelete(store, index) ELSE Ret(store, "throw")

dropIndexOnElastic(store, index) == EsIndicesDelete(store, index)

deleteDataOnElastic(store, id, index) == EsDelete(store, index, id)

updateDataOnElastic(store, id, index, body) == EsUpdate(store, index, id, body)

createDataOnElastic_autoId(store, id, index, body) ==
    EsIndexAutoId(store, index, id, body)

createDataOnElastic(store, id, index, body) == EsIndex(store, index, id, body)

\* ---------------------------------------------------------- change events

\* The namespace of an event: a collection name, a namespace without a
\* collection name (dropDatabase), or no namespace at all (invalidate).
NsNoColl == "<db only>"
NsNone == "<no ns>"

Event(op, ns, id, f) == [op |-> op, ns |-> ns, id |-> id, fields |-> f]

\* The events the feed delivers: inserts and updates of a document with
\* an ObjectId as _id in either collection and of one with the (falsy)
\* number 0 as _id, deletes, drops, and three kinds the translator does not
\* handle.
EventColls == {"Orders", "pages"}

EventDocs == {<<c, OidA>> : c \in EventColls} \cup {<<"Orders", Num0>>}

Events ==
    {Event("insert", d[1], d[2], FieldsA) : d \in EventDocs}
    \cup {Event("update", d[1], d[2], FieldsB) : d \in EventDocs}
    \cup {Event("delete", c, OidA, NoFields) : c \in EventColls}
    \cup {Event("drop", c, NoId, NoFields) : c \in EventColls}
    \cup {Event("replace", "pages", OidA, FieldsA),
          Event("dropDatabase", NsNoColl, NoId, NoFields),
          Event("invalidate", NsNone, NoId, NoFields)}

NoEvent == Event("none", NsNone, NoId, NoFields)

HandledKinds == {"insert", "update", "delete", "drop"}

\* data.ns.coll can be read and lower-cased (line 179 does not throw).
HasColl(e) == e.ns \in Colls

\* ------------------------------------------------------- Event Translator

\* A call on the elastic client that was issued and has not returned.
Request(call, index, id, body, e) ==
    [call |-> call, index |-> index, id |-> id, body |-> body, ev |-> e]

\* generateOperation up to its await: the call it issues for the event.
\* Only evaluated for an event with a collection name and a handled kind.
generateOperation(prefix, e) ==
    LET index == getPrefix(prefix, e.ns)
        body == Body(~Truthy(e.id), e.fields)
    IN  CASE e.op = "delete" ->
                Request("delete", index, e.id, Body(FALSE, NoFields), e)
          [] e.op = "insert" -> Request("index", index, e.id, body, e)
          [] e.op = "update" -> Request("update", index, e.id, body, e)
          [] e.op = "drop" ->
                Request("indicesDelete", index, NoId, Body(FALSE, NoFields), e)

\* The effect of an issued call on the target store, and its outcome.
Apply(store, r) ==
    CASE r.call = "delete" -> deleteDataOnElastic(store, r.id, r.index)
      [] r.call = "index" -> createDataOnElastic(store, r.id, r.index, r.body)
      [] r.call = "update" -> updateDataOnElastic(store, r.id, r.index, r.body)
      [] r.call = "indicesDelete" -> dropIndexOnElastic(store, r.index)

\* ------------------------------------------------------------ source store

Doc(id, f) == [_id |-> id, fields |-> f]

\* db.listCollections(): catalog entries in listing order.
Listing ==
    << [name |-> "Orders", type |-> "collection"],
       [name |-> "report", type |-> "view"],
       [name |-> "pages", type |-> "collection"],
       [name |-> "orders", type |-> "collection"] >>

\* Contents of the source when the run starts.
MongoStates ==
    { [c \in Colls |->
          CASE c = "Orders" -> <<Doc(OidA, FieldsA), Doc(Num0, FieldsB)>>
            [] c = "pages" -> <<Doc(StrB, FieldsA)>>
            [] c = "orders" -> <<>>] }

\* Contents of the target store when the run starts: no index, or an index
\* left by an earlier run that holds a document the source no longer has.
EsStates ==
    { [x \in IndexNames |-> AbsentIndex],
      [x \in IndexNames |->
          IF x = getPrefix(Prefix, "pages")
          THEN [EmptyIndex EXCEPT !.docs["a1"] = StoredDoc(FieldsB)]
          ELSE AbsentIndex] }

\* excludedCollections as passed to startSync (undefined acts as empty).
ExcludedChoices == {{}, {"pages"}}

\* The target store when startDropIndices is called: the indices of an
\* earlier synchronisation.
DropEsStates ==
    { [x \in IndexNames |-> [EmptyIndex EXCEPT !.docs["a1"] = StoredDoc(FieldsA)]] }

\* collectionsName as passed to startDropIndices.
DropLists == {<<"Orders", "pages">>, <<"", "pages">>}

\* ------------------------------------------------------- Snapshot Loader

\* collectionsArr.map(ele => ele.type === "collection" ? ele.name : null);
\* the empty string stands for null.
MapNames(listing) ==
    [k \in 1..Len(listing) |->
        IF listing[k].type = "collection" THEN listing[k].name ELSE ""]

\* A bulk body whose index actions do not carry the document's id: the
\* store files every document under an id of its own choosing.
RECURSIVE BulkData_noId(_, _)
BulkData_noId(index, body) ==
    IF body = <<>> THEN <<>>
    ELSE << [kind |-> "action", _index |-> index,
             _id |-> [type |-> "string", str |-> "gen1"], fields |-> NoFields],
            [kind |-> "document", _index |-> index,
             _id |-> NoId, fields |-> Head(body).fields] >>
         \o BulkData_noId(index, Tail(body))

\* body.flatMap(doc => [{index: {_index, _id: _id.toString()}}, rest]).
RECURSIVE BulkData(_, _)
BulkData(index, body) ==
    IF body = <<>> THEN <<>>
    ELSE << [kind |-> "action", _index |-> index,
             _id |-> toString(Head(body)._id), fields |-> NoFields],
            [kind |-> "document", _index |-> index,
             _id |-> NoId, fields |-> Head(body).fields] >>
         \o BulkData(index, Tail(body))

\* One item of a bulk response.
ItemOk == [status |-> 201, error |-> FALSE]
ItemErr == [status |-> 400, error |-> TRUE]

\* A bulk call whose index actions carry no _id: every document is stored
\* under an id the store generates.
RECURSIVE EsBulk_autoId(_, _, _, _)
EsBulk_autoId(store, data, items, k) ==
    IF 2 * k > Len(data) THEN store
    ELSE LET act == data[2 * k - 1]
             doc == data[2 * k]
             free == FreeAutoIds(store, act._index)
             next == IF items[k].error \/ free = {} THEN Created(store, act._index)
                     ELSE PutDoc(store, act._index,
                                 IF "gen1" \in free THEN "gen1" ELSE "gen2",
                                 doc.fields)
         IN  EsBulk_autoId(next, data, items, k + 1)

\* ESclient.bulk({refresh: true, body: data}): every index action whose
\* item carries no error stores its document; the index exists afterwards.
RECURSIVE EsBulk(_, _, _, _)
EsBulk(store, data, items, k) ==
    IF 2 * k > Len(data) THEN store
    ELSE LET act == data[2 * k - 1]
             doc == data[2 * k]
             next == IF items[k].error THEN Created(store, act._index)
                     ELSE PutDoc(store, act._index, act._id.str, doc.fields)
         IN  EsBulk(next, data, items, k + 1)

\* Error records that read the bulk body at the item's position, not at
\* twice that position.
RECURSIVE erroredDocuments_unscaled(_, _, _)
erroredDocuments_unscaled(data, items, k) ==
    IF k > Len(items) THEN <<>>
    ELSE (IF items[k].error
          THEN << [status |-> items[k].status, error |-> items[k].error,
                   operation |-> data[(k - 1) + 1],
                   document |-> data[(k - 1) + 2]] >>
          ELSE <<>>)
         \o erroredDocuments_unscaled(data, items, k + 1)

\* The error records of lines 313-326, in item order.
RECURSIVE erroredDocuments(_, _, _)
erroredDocuments(data, items, k) ==
    IF k > Len(items) THEN <<>>
    ELSE (IF items[k].error
          THEN << [status |-> items[k].status, error |-> items[k].error,
                   operation |-> data[(k - 1) * 2 + 1],
                   document |-> data[(k - 1) * 2 + 2]] >>
          ELSE <<>>)
         \o erroredDocuments(data, items, k + 1)

bulkErrors(items) == \E k \in 1..Len(items) : items[k].error

\* The consistency check comparing with the length of the flattened bulk
\* body (two entries per document) instead of the documents read.
countMismatch_dataLength(count, n) == ~(count = 2 * n)

\* The consistency check of line 334.
countMismatch(count, n) == ~(count = n)

\* What the loader did for one listing entry: the documents read, whether
\* the index was absent when the bulk call ran, the response items, the
\* count, and what was logged.
NoReport ==
    [state |-> "none", n |-> 0, body |-> <<>>, fresh |-> FALSE,
     items |-> <<>>, count |-> 0, errors |-> FALSE, records |-> <<>>,
     warned |-> FALSE]


\* ------------------------------------------------------------------ state

VARIABLES
    option,               \* this.option: prefix, initialSync, debug
    excludedCollections,  \* the exclusion argument of the entry point
    entry,                \* the entry point called: startSync, initialSync, startDropIndices
    mongo,                \* source store: collection name -> documents
    es,                   \* target store: index name -> index
    pc,                   \* where the entry point stands
    collectionsName,      \* initDbSync: the mapped listing; dropIndices: its argument
    i,                    \* initDbSync, dropIndices: loop index (1-based)
    data,                 \* createBulkDataOnElastic: the bulk body in flight
    report,               \* per listing entry: what the loader did and logged
    failedAt,             \* listing entry whose step threw (0: none)
    failure,              \* the error that last reached a catch block of an entry point
    sub,                  \* the change subscription: none, open, closed
    promise,              \* initWatcher's promise: none, pending, resolved, rejected
    feed,                 \* change events the source emitted and the feed has not delivered
    inflight,             \* single-document calls issued and not yet returned
    delivered,            \* number of change events delivered
    translated,           \* number of calls of generateOperation
    uncaught,             \* an error was raised outside every try block
    last,                 \* the change handler that finished last
    run,                  \* number of calls of initialSync by the caller
    prev,                 \* the target store when the current call began
    writes                \* number of writes made to the source by other clients

vars ==
    <<option, excludedCollections, entry, mongo, es, pc, collectionsName, i,
      data, report, failedAt, failure, sub, promise, feed, inflight, delivered,
      translated, uncaught, last, run, prev, writes>>

snapVars == <<collectionsName, i, data, report, failedAt>>
feedVars == <<sub, promise, feed, inflight, delivered, translated, uncaught, last>>
confVars == <<option, excludedCollections, entry, mongo>>
callVars == <<run, prev, writes>>

NoLast ==
    [ev |-> NoEvent, outcome |-> "none", issued |-> FALSE,
     pre |-> [x \in IndexNames |-> AbsentIndex], again |-> FALSE]

NoReports == [k \in 1..Len(Listing) |-> NoReport]

\* What each entry point is called with: startSync and initialSync with a
\* target store as an earlier run may have left it, startDropIndices with a
\* list of collection names and the indices of an earlier synchronisation.
Init ==
    /\ option \in [prefix : {Prefix}, initialSync : BOOLEAN, debug : BOOLEAN]
    /\ excludedCollections \in ExcludedChoices
    /\ mongo \in MongoStates
    /\ \/ /\ entry \in {"startSync", "initialSync"}
          /\ es \in EsStates
          /\ collectionsName = <<>>
       \/ /\ entry = "startDropIndices"
          /\ es \in DropEsStates
          /\ collectionsName \in DropLists
    /\ pc = entry
    /\ i = 0
    /\ data = <<>>
    /\ report = NoReports
    /\ failedAt = 0
    /\ failure = "none"
    /\ sub = "none"
    /\ promise = "none"
    /\ feed = <<>>
    /\ inflight = <<>>
    /\ delivered = 0
    /\ translated = 0
    /\ uncaught = FALSE
    /\ last = NoLast
    /\ run = 1
    /\ prev = [es |-> es, clean |-> FALSE]
    /\ writes = 0

\* ------------------------------------------------------ Sync Orchestrator

\* The catch block of startSync that rethrows whatever the debug flag says.
startSyncCatch_swallow == "returned"

\* The catch block of startSync (lines 56-59).
startSyncCatch == IF option.debug THEN "thrown" ELSE "returned"

\* The catch block of startDropIndices (lines 67-70).
startDropIndicesCatch == IF option.debug THEN "thrown" ELSE "returned"

\* Where control goes when initialSync returns normally: back into
\* startSync, which goes on to initWatcher (lines 54-55), or to the caller.
initialSyncReturn == IF entry = "startSync" THEN "initWatcher" ELSE "returned"

\* The catch block of initialSync (lines 44-47): in debug mode it rethrows
\* (into the catch block of startSync when called from there), otherwise
\* initialSync returns normally.
initialSyncCatch ==
    IF option.debug
    THEN IF entry = "startSync" THEN startSyncCatch ELSE "thrown"
    ELSE initialSyncReturn

\* startSync up to the first await that can fail: the two handles are
\* established (connected == FALSE: establishing one of them throws).
startSync(connected) ==
    /\ pc = "startSync"
    /\ pc' = IF ~connected THEN startSyncCatch
             ELSE IF option.initialSync THEN "initDbSync" ELSE "initWatcher"
    /\ failure' = IF connected THEN failure ELSE "connect"
    /\ UNCHANGED <<confVars, es, snapVars, feedVars, callVars>>

\* initialSync called by the caller, lines 38-43: the handles are
\* established on the first call (they exist on a later one).
initialSync(connected) ==
    /\ pc = "initialSync"
    /\ run > 1 => connected
    /\ pc' = IF connected THEN "initDbSync" ELSE initialSyncCatch
    /\ failure' = IF connected THEN failure ELSE "connect"
    /\ UNCHANGED <<confVars, es, snapVars, feedVars, callVars>>

\* The caller calls initialSync once more after it returned.
initialSync_again ==
    /\ entry = "initialSync"
    /\ pc = "returned"
    /\ run < MaxRuns
    /\ run' = run + 1
    /\ prev' = [es |-> es,
                clean |-> (failure = "none"
                           /\ \A k \in 1..Len(Listing) : ~report[k].errors)]
    /\ pc' = "initialSync"
    /\ collectionsName' = <<>>
    /\ i' = 0
    /\ report' = NoReports
    /\ failedAt' = 0
    /\ failure' = "none"
    /\ UNCHANGED <<confVars, es, data, feedVars, writes>>

\* ------------------------------------------------------- Snapshot Loader

\* initDbSync, lines 110-113: the listing (listed == FALSE: it throws).
initDbSync_list(listed) ==
    /\ pc = "initDbSync"
    /\ IF listed
       THEN /\ collectionsName' = MapNames(Listing)
            /\ i' = 1
            /\ pc' = "loop"
            /\ UNCHANGED <<failedAt, failure>>
       ELSE /\ pc' = initialSyncCatch
            /\ failure' = "list"
            /\ UNCHANGED <<collectionsName, i, failedAt>>
    /\ UNCHANGED <<confVars, es, data, report, feedVars, callVars>>

\* The loop test of line 114 failing: initDbSync and initialSync return.
initDbSync_done ==
    /\ pc = "loop"
    /\ i > Len(collectionsName)
    /\ pc' = initialSyncReturn
    /\ UNCHANGED <<confVars, es, snapVars, failure, feedVars, callVars>>

\* Line 117: a null name or an excluded collection is skipped.
Skipped_ignoreExcluded(collName) == collName = ""

Skipped(collName) == collName = "" \/ collName \in excludedCollections

initDbSync_skip ==
    /\ pc = "loop"
    /\ i <= Len(collectionsName)
    /\ Skipped(collectionsName[i])
    /\ report' = [report EXCEPT ![i].state = "skipped"]
    /\ i' = i + 1
    /\ UNCHANGED <<confVars, es, pc, collectionsName, data, failedAt, failure,
                   feedVars, callVars>>

\* Lines 119-122 and 284-301: the collection is read (read == FALSE: find
\* throws), the bulk body is built, and either the loader returns early on
\* an empty body or the bulk call is issued.
initDbSync_read(read) ==
    /\ pc = "loop"
    /\ i <= Len(collectionsName)
    /\ ~Skipped(collectionsName[i])
    /\ LET collName == collectionsName[i]
           index == getPrefix(option.prefix, collName)
           allData == mongo[collName]
       IN  IF ~read
           THEN /\ failedAt' = i
                /\ failure' = "read"
                /\ report' = [report EXCEPT ![i].state = "failed"]
                /\ pc' = initialSyncCatch
                /\ UNCHANGED <<i, data>>
           ELSE IF BulkData(index, allData) = <<>>
           THEN /\ report' = [report EXCEPT ![i].state = "empty"]
                /\ i' = i + 1
                /\ UNCHANGED <<pc, data, failedAt, failure>>
           ELSE /\ data' = BulkData(index, allData)
                /\ report' = [report EXCEPT ![i].state = "read",
                                            ![i].n = Len(allData),
                                            ![i].body = allData]
                /\ pc' = "bulk"
                /\ UNCHANGED <<i, failedAt, failure>>
    /\ UNCHANGED <<confVars, es, collectionsName, feedVars, callVars>>

\* Lines 298-337: the bulk call returns items (sent == FALSE: the call
\* itself throws); the error records are logged when the response reports
\* errors, the index is counted and the counts are compared.
createBulkDataOnElastic(sent, items) ==
    /\ pc = "bulk"
    /\ Len(items) * 2 = Len(data)
    /\ IF ~sent
       THEN /\ items = [k \in 1..Len(items) |-> ItemOk]
            /\ failedAt' = i
            /\ failure' = "bulk"
            /\ report' = [report EXCEPT ![i].state = "failed"]
            /\ pc' = initialSyncCatch
            /\ UNCHANGED <<es, i>>
       ELSE LET index == data[1]._index
                store == EsBulk(es, data, items, 1)
                count == EsCount(store, index)
            IN  /\ es' = store
                /\ report' =
                     [report EXCEPT
                        ![i].state = "done",
                        ![i].fresh = ~es[index].exists,
                        ![i].items = items,
                        ![i].count = count,
                        ![i].errors = bulkErrors(items),
                        ![i].records = IF bulkErrors(items)
                                       THEN erroredDocuments(data, items, 1)
                                       ELSE <<>>,
                        ![i].warned = countMismatch(count, report[i].n)]
                /\ i' = i + 1
                /\ pc' = "loop"
                /\ UNCHANGED <<failedAt, failure>>
    /\ data' = <<>>
    /\ UNCHANGED <<confVars, collectionsName, feedVars, callVars>>

\* ----------------------------------------------------------- dropIndices

\* startDropIndices, lines 62-66: the handles are established.
startDropIndices(connected) ==
    /\ pc = "startDropIndices"
    /\ pc' = IF connected THEN "dropLoop" ELSE startDropIndicesCatch
    /\ i' = IF connected THEN 1 ELSE i
    /\ failure' = IF connected THEN failure ELSE "connect"
    /\ UNCHANGED <<confVars, es, collectionsName, data, report, failedAt,
                   feedVars, callVars>>

\* Line 134 failing: dropIndices and startDropIndices return.
dropIndices_done ==
    /\ pc = "dropLoop"
    /\ i > Len(collectionsName)
    /\ pc' = "returned"
    /\ UNCHANGED <<confVars, es, snapVars, failure, feedVars, callVars>>

\* Line 137: an empty name or an excluded collection is skipped.
dropIndices_skip ==
    /\ pc = "dropLoop"
    /\ i <= Len(collectionsName)
    /\ Skipped(collectionsName[i])
    /\ i' = i + 1
    /\ UNCHANGED <<confVars, es, pc, collectionsName, data, report, failedAt,
                   failure, feedVars, callVars>>

\* Lines 139-142: the derived index is deleted (dropped == FALSE: the call
\* does not reach the target store and throws).
dropIndices_drop(dropped) ==
    /\ pc = "dropLoop"
    /\ i <= Len(collectionsName)
    /\ ~Skipped(collectionsName[i])
    /\ LET index == getPrefix(option.prefix, collectionsName[i])
           ret == dropIndexOnElastic(es, index)
       IN  IF dropped /\ ret.outcome = "ok"
           THEN /\ es' = ret.es
                /\ i' = i + 1
                /\ UNCHANGED <<pc, failedAt, failure>>
           ELSE /\ es' = (IF dropped THEN ret.es ELSE es)
                /\ failedAt' = i
                /\ failure' = "drop"
                /\ pc' = startDropIndicesCatch
                /\ UNCHANGED i
    /\ UNCHANGED <<confVars, collectionsName, data, report, feedVars, callVars>>

\* -------------------------------------------------- Change Feed Consumer

\* initWatcher opening the subscription without waiting for the snapshot.
initWatcher_early ==
    /\ pc \in {"initWatcher", "loop"}
    /\ entry = "startSync"
    /\ sub = "none"
    /\ sub' = "open"
    /\ promise' = "pending"
    /\ pc' = IF pc = "initWatcher" THEN "watching" ELSE pc
    /\ UNCHANGED <<confVars, es, snapVars, failure, feed, inflight, delivered,
                   translated, uncaught, last, callVars>>

\* initWatcher, lines 153-156: the promise is created and the handler is
\* registered on the change stream; startSync awaits the promise.
initWatcher ==
    /\ pc = "initWatcher"
    /\ sub' = "open"
    /\ promise' = "pending"
    /\ pc' = "watching"
    /\ UNCHANGED <<confVars, es, snapVars, failure, feed, inflight, delivered,
                   translated, uncaught, last, callVars>>

\* resolve() / reject(error) of lines 162 and 166: only the first call
\* settles the promise.
Settled(outcome) ==
    IF promise = "pending"
    THEN IF outcome = "throw" THEN "rejected" ELSE "resolved"
    ELSE promise

\* startSync resuming from await this.initWatcher() when the promise settles.
Resumed(outcome) ==
    IF pc = "watching" /\ promise = "pending"
    THEN IF outcome = "throw" THEN startSyncCatch ELSE "returned"
    ELSE pc

\* The error that reaches the catch block of startSync when the promise is
\* rejected while startSync awaits it.
Caught(outcome) ==
    IF pc = "watching" /\ promise = "pending" /\ outcome = "throw"
    THEN "event"
    ELSE failure

Finished(e, outcome, issued) ==
    [ev |-> e, outcome |-> outcome, issued |-> issued, pre |-> es,
     again |-> (issued /\ last.issued /\ last.ev = e)]

\* A listener registered with once(): called for the first event only.
handlerCalls_once(emitted) == IF emitted = 0 THEN 1 ELSE 0

\* on("change", handler), line 156: how often the handler is called for an
\* emitted event, given the number of events emitted before it.
handlerCalls(emitted) == 1

\* The "change" handler of lines 156-168 up to its await. Its second
\* parameter is never passed by the emitter, so line 158 does nothing.
\* Line 179 throws for an event without a collection name; an unhandled
\* kind is logged; both end the handler at once. Otherwise the call on the
\* elastic client is issued and the handler waits for it.
handler(e) ==
    /\ translated' = translated + 1
    /\ IF ~HasColl(e)
       THEN /\ promise' = Settled("throw")
            /\ pc' = Resumed("throw")
            /\ failure' = Caught("throw")
            /\ last' = Finished(e, "throw", FALSE)
            /\ UNCHANGED inflight
       ELSE IF e.op \notin HandledKinds
       THEN /\ promise' = Settled("ok")
            /\ pc' = Resumed("ok")
            /\ last' = Finished(e, "ok", FALSE)
            /\ UNCHANGED <<inflight, failure>>
       ELSE /\ inflight' = Append(inflight, generateOperation(option.prefix, e))
            /\ UNCHANGED <<promise, pc, last, failure>>

\* The emitter calling its listeners for an event.
emit(e) ==
    /\ delivered' = delivered + 1
    /\ IF handlerCalls(delivered) = 1
       THEN handler(e)
       ELSE UNCHANGED <<translated, promise, pc, failure, last, inflight>>

\* The feed delivers a change event (any event of the feed's vocabulary).
change(e) ==
    /\ sub = "open"
    /\ ~uncaught
    /\ delivered < MaxEvents
    /\ emit(e)
    /\ UNCHANGED <<confVars, es, snapVars, sub, feed, uncaught, callVars>>

Remove(seq, k) == SubSeq(seq, 1, k - 1) \o SubSeq(seq, k + 1, Len(seq))

\* An issued call returns: the store applies it and the handler resumes at
\* line 162 (resolve) or line 166 (reject). Calls return in any order. After
\* an uncaught error the process is gone: the store still applies the calls
\* it was sent, and no handler resumes.
complete(k) ==
    /\ k \in 1..Len(inflight)
    /\ LET r == inflight[k]
           ret == Apply(es, r)
       IN  /\ es' = ret.es
           /\ inflight' = Remove(inflight, k)
           /\ IF uncaught
              THEN /\ last' = [Finished(r.ev, "lost", TRUE) EXCEPT !.again = FALSE]
                   /\ UNCHANGED <<promise, pc, failure>>
              ELSE /\ promise' = Settled(ret.outcome)
                   /\ pc' = Resumed(ret.outcome)
                   /\ failure' = Caught(ret.outcome)
                   /\ last' = Finished(r.ev, ret.outcome, TRUE)
    /\ UNCHANGED <<confVars, snapVars, sub, feed, delivered, translated,
                   uncaught, callVars>>

\* A feed-level error: the driver closes the change stream and emits
\* "error" on it. initWatcher registers no listener for "error", so the
\* emitter throws outside every try block and the promise is not touched.
feedError ==
    /\ sub = "open"
    /\ sub' = "closed"
    /\ uncaught' = TRUE
    /\ UNCHANGED <<confVars, es, pc, snapVars, failure, promise, feed, inflight,
                   delivered, translated, last, callVars>>

\* ---------------------------------------------------------- specification

ItemSeqs == UNION {[1..n -> {ItemOk, ItemErr}] : n \in 1..MaxBatch}

Next ==
    \/ \E connected \in BOOLEAN : startSync(connected)
    \/ \E connected \in BOOLEAN : initialSync(connected)
    \/ initialSync_again
    \/ \E listed \in BOOLEAN : initDbSync_list(listed)
    \/ initDbSync_done
    \/ initDbSync_skip
    \/ \E read \in BOOLEAN : initDbSync_read(read)
    \/ \E sent \in BOOLEAN, items \in ItemSeqs : createBulkDataOnElastic(sent, items)
    \/ \E connected \in BOOLEAN : startDropIndices(connected)
    \/ dropIndices_done
    \/ dropIndices_skip
    \/ \E dropped \in BOOLEAN : dropIndices_drop(dropped)
    \/ initWatcher
    \/ \E e \in Events : change(e)
    \/ \E k \in 1..MaxEvents : complete(k)
    \/ feedError

Spec == Init /\ [][Next]_vars


\* ------------------------------------------------- writes to the source

\* The documents other clients insert while the program runs.
WriteDocs == {Doc(OidA, FieldsA), Doc(StrB, FieldsA)}

SourceIds(c) == {mongo[c][k]._id : k \in 1..Len(mongo[c])}

\* The change stream (lines 154-155, opened without a resume token or a
\* start time) carries the events of the writes made while it is open; a
\* write made before that reaches no one.
Emitted(e) == IF sub = "open" THEN Append(feed, e) ELSE feed

\* Another client inserts a document.
sourceInsert(c, d) ==
    /\ writes < MaxWrites
    /\ ~uncaught
    /\ d._id \notin SourceIds(c)
    /\ mongo' = [mongo EXCEPT ![c] = Append(@, d)]
    /\ feed' = Emitted(Event("insert", c, d._id, d.fields))
    /\ writes' = writes + 1
    /\ UNCHANGED <<option, excludedCollections, entry, es, pc, snapVars, failure,
                   sub, promise, inflight, delivered, translated, uncaught,
                   last, run, prev>>

\* Another client updates a document; with fullDocument: "updateLookup"
\* the event carries the document as it is after the update.
sourceUpdate(c, k) ==
    /\ writes < MaxWrites
    /\ ~uncaught
    /\ k \in 1..Len(mongo[c])
    /\ LET f == IF mongo[c][k].fields = FieldsA THEN FieldsB ELSE FieldsA
       IN  /\ mongo' = [mongo EXCEPT ![c][k].fields = f]
           /\ feed' = Emitted(Event("update", c, mongo[c][k]._id, f))
    /\ writes' = writes + 1
    /\ UNCHANGED <<option, excludedCollections, entry, es, pc, snapVars, failure,
                   sub, promise, inflight, delivered, translated, uncaught,
                   last, run, prev>>

\* Another client deletes a document.
sourceDelete(c, k) ==
    /\ writes < MaxWrites
    /\ ~uncaught
    /\ k \in 1..Len(mongo[c])
    /\ mongo' = [mongo EXCEPT ![c] = Remove(@, k)]
    /\ feed' = Emitted(Event("delete", c, mongo[c][k]._id, NoFields))
    /\ writes' = writes + 1
    /\ UNCHANGED <<option, excludedCollections, entry, es, pc, snapVars, failure,
                   sub, promise, inflight, delivered, translated, uncaught,
                   last, run, prev>>

\* The feed delivers the oldest event it carries.
feedDeliver ==
    /\ sub = "open"
    /\ ~uncaught
    /\ feed # <<>>
    /\ emit(Head(feed))
    /\ feed' = Tail(feed)
    /\ UNCHANGED <<confVars, es, snapVars, sub, uncaught, callVars>>

\* startSync running while other clients write to the source: the events
\* the feed delivers are those of the writes.
InitWrites == Init /\ entry = "startSync"

NextWrites ==
    \/ \E connected \in BOOLEAN : startSync(connected)
    \/ \E listed \in BOOLEAN : initDbSync_list(listed)
    \/ initDbSync_done
    \/ initDbSync_skip
    \/ \E read \in BOOLEAN : initDbSync_read(read)
    \/ \E sent \in BOOLEAN, items \in ItemSeqs : createBulkDataOnElastic(sent, items)
    \/ initWatcher
    \/ \E c \in EventColls, d \in WriteDocs : sourceInsert(c, d)
    \/ \E c \in EventColls, k \in 1..2 : sourceUpdate(c, k)
    \/ \E c \in EventColls, k \in 1..2 : sourceDelete(c, k)
    \/ feedDeliver
    \/ \E k \in 1..MaxWrites : complete(k)
    \/ feedError

SpecWrites == InitWrites /\ [][NextWrites]_vars

\* ------------------------------------------------------------ properties

DocKey(e) == toString(e.id).str
IndexOf(e) == getPrefix(option.prefix, e.ns)

DocPresent(store, e) ==
    store[IndexOf(e)].exists /\ store[IndexOf(e)].docs[DocKey(e)].present

\* The handler for the last event issued its call and resumed with the
\* call's result.
Handled(op) ==
    /\ last.ev.op = op
    /\ last.issued
    /\ last.outcome \in {"ok", "throw"}

SnapshotOver == pc \in {"initWatcher", "watching", "returned", "thrown"}

\* C1: a delete event whose document is not in the derived index (such as
\* the second delivery of a delete) completes without an error and leaves
\* the target store as it was.
C1_DeleteOfMissingIsSuccess ==
    (Handled("delete") /\ ~DocPresent(last.pre, last.ev))
        => (last.outcome = "ok" /\ es = last.pre)

\* C2: after an update event was applied, the index document under the
\* event's id is present and its body is exactly the event's full document
\* without _id (fields of the old body that the full document lacks are
\* gone).
C2_UpdateReplacesBody ==
    (Handled("update") /\ last.outcome = "ok")
        => es[IndexOf(last.ev)].docs[DocKey(last.ev)] = StoredDoc(last.ev.fields)

C4_UnhandledKindIsSkipped ==
    (last.ev.op \notin (HandledKinds \cup {"none"}))
        => (last.outcome = "ok" /\ ~last.issued)

\* C5: an excluded collection is never read by the snapshot, no bulk write
\* goes to its derived index, and no call is issued for a change event of
\* it.
C5_ExcludedNeverTouched ==
    /\ \A k \in 1..Len(Listing) :
          Listing[k].name \in excludedCollections
              => report[k].state \in {"none", "skipped"}
    /\ \A k \in 1..Len(data), c \in excludedCollections :
          data[k]._index # getPrefix(option.prefix, c)
    /\ \A k \in 1..Len(inflight) : inflight[k].ev.ns \notin excludedCollections

\* C6: calls for events of the same collection are issued one at a time:
\* no two calls on the same index are in flight together.
C6_OneCallPerIndexInFlight ==
    \A j, k \in 1..Len(inflight) :
        j # k => inflight[j].index # inflight[k].index

\* C7: when the read or the bulk call of one collection fails, every later
\* non-excluded collection of the listing is still snapshotted.
C7_FailureDoesNotStopLoader ==
    (SnapshotOver /\ failedAt > 0)
        => \A k \in 1..Len(collectionsName) :
              (k > failedAt /\ ~Skipped(collectionsName[k]))
                  => report[k].state # "none"

C9_FeedErrorFailsConsume ==
    (sub = "closed")
        => (promise = "rejected" /\ (option.debug => pc = "thrown"))

\* C10: every document id handed to the target store is a string, in the
\* bulk body of the snapshot and in the insert, update and delete calls of
\* the translator.
C10_TargetIdsAreStrings ==
    /\ \A k \in 1..Len(data) :
          data[k].kind = "action" => data[k]._id.type = "string"
    /\ \A k \in 1..Len(inflight) :
          inflight[k].call \in {"index", "update", "delete"}
              => inflight[k].id.type = "string"

\* C11: after a drop event is applied the derived index of its collection
\* does not exist and no other index has changed; the drop raises no error,
\* and when the index did not exist before (a repeated drop, or an index
\* that never existed) the target store is left as it was.
C11_DropIsIdempotent ==
    Handled("drop")
        => /\ last.outcome = "ok"
           /\ ~es[IndexOf(last.ev)].exists
           /\ es = [last.pre EXCEPT ![IndexOf(last.ev)] = AbsentIndex]
           /\ (~last.pre[IndexOf(last.ev)].exists => es = last.pre)

C11_Witness ==
    /\ Handled("drop")
    /\ last.again
    /\ ~last.pre[IndexOf(last.ev)].exists
    /\ last.outcome = "ok"
    /\ es = last.pre

\* The snapshot loader has finished: every listing entry was processed, or
\* the loader stopped on a read or bulk call that threw, or on a listing
\* that threw (no name was ever produced).
LoaderFinished ==
    \/ collectionsName # <<>> /\ i > Len(collectionsName)
    \/ failedAt > 0
    \/ collectionsName = <<>>

\* C12: when startSync runs with the initial-snapshot flag set, the change
\* subscription is open only after the snapshot loader has finished, and
\* while a snapshot bulk write is pending no subscription is open and no
\* change event has been handled.
C12_WatchAfterSnapshot ==
    /\ (entry = "startSync" /\ option.initialSync /\ sub # "none")
          => /\ pc \in {"watching", "returned", "thrown"}
             /\ LoaderFinished
             /\ data = <<>>
    /\ (data # <<>>)
          => (sub = "none" /\ delivered = 0 /\ translated = 0 /\ inflight = <<>>)

C12_Witness ==
    /\ entry = "startSync"
    /\ option.initialSync
    /\ sub = "open"
    /\ translated > 0
    /\ i > Len(collectionsName)
    /\ \E k \in 1..Len(Listing) : report[k].state = "done"

\* C13: once a call of the snapshot loader has run without an error, a
\* further call over the unchanged source leaves the target store exactly
\* as the earlier call left it: the same indices, the same document ids and
\* the same bodies, whatever the further call meets.
C13_SnapshotIdempotent ==
    (entry = "initialSync" /\ run > 1 /\ prev.clean) => es = prev.es

C13_Witness ==
    /\ entry = "initialSync"
    /\ run = 2
    /\ pc = "returned"
    /\ prev.clean
    /\ failure = "none"
    /\ report[1].state = "done" /\ ~report[1].errors
    /\ report[3].state = "done" /\ ~report[3].errors
    /\ EsCount(es, getPrefix(option.prefix, "Orders")) = 2
    /\ es = prev.es

\* The documents of an index, and the documents its non-excluded source
\* collections hold, as (id, body) pairs.
IndexDocs(x) ==
    {[key |-> k, fields |-> es[x].docs[k].fields] :
        k \in {q \in EsKeys : es[x].exists /\ es[x].docs[q].present}}

SourceDocs(x) ==
    UNION {{[key |-> toString(mongo[c][k]._id).str, fields |-> mongo[c][k].fields] :
                k \in 1..Len(mongo[c])} :
           c \in {q \in Colls \ excludedCollections : getPrefix(option.prefix, q) = x}}

\* The snapshot ran to its end with no error, no error record and no
\* consistency warning.
CleanSnapshot ==
    /\ collectionsName # <<>>
    /\ i > Len(collectionsName)
    /\ failedAt = 0
    /\ \A k \in 1..Len(Listing) : ~report[k].errors /\ ~report[k].warned

\* Every event the feed carried was delivered and applied without an error.
FeedApplied ==
    /\ sub = "open"
    /\ feed = <<>>
    /\ inflight = <<>>
    /\ translated = delivered
    /\ promise # "rejected"
    /\ last.outcome \in {"none", "ok"}

\* C14: with the initial snapshot enabled, once the snapshot has finished
\* and every change event delivered by the feed has been applied without
\* error, the index of each non-excluded collection holds exactly the
\* current documents of the source, whenever the source writes happened
\* (stated for a run that began with no index in the target store).
C14_IndexMirrorsSource ==
    (/\ entry = "startSync" /\ option.initialSync
     /\ prev.es = [x \in IndexNames |-> AbsentIndex]
     /\ CleanSnapshot /\ FeedApplied)
        => \A c \in Colls \ excludedCollections :
              IndexDocs(getPrefix(option.prefix, c)) = SourceDocs(getPrefix(option.prefix, c))

C16_DebugDecidesRethrow ==
    /\ (pc = "thrown") => (option.debug /\ failure # "none")
    /\ (failure # "none" /\ option.debug) => pc = "thrown"
    /\ (failure # "none" /\ ~option.debug)
          => pc \in (IF entry = "startSync" /\ failure \in {"list", "read", "bulk"}
                     THEN {"initWatcher", "watching", "returned"}
                     ELSE {"returned"})

C16_Witness ==
    /\ entry = "startSync"
    /\ option.debug
    /\ failure = "bulk"
    /\ failedAt > 0
    /\ pc = "thrown"

\* The collection names startDropIndices was given and does not skip, and
\* the indices derived from them.
Listed(c) == \E k \in 1..Len(collectionsName) : collectionsName[k] = c

DropTargets ==
    {getPrefix(option.prefix, c) :
        c \in {q \in Colls : Listed(q) /\ q \notin excludedCollections}}

\* C17 as stated: startDropIndices deletes the derived index of every
\* listed name that is not excluded and leaves unchanged the index of
\* every excluded or unlisted collection, and the source store.
C17_DropLeavesOtherCollections ==
    (entry = "startDropIndices" /\ pc = "returned" /\ failure = "none")
        => /\ \A c \in Colls :
                 IF Listed(c) /\ c \notin excludedCollections
                 THEN ~es[getPrefix(option.prefix, c)].exists
                 ELSE es[getPrefix(option.prefix, c)] = prev.es[getPrefix(option.prefix, c)]
           /\ mongo \in MongoStates

\* C17, amended: startDropIndices deletes the derived index of every
\* listed name that is not excluded, and leaves unchanged every index that
\* is not derived from such a name, and the source store. At no point of
\* the call has any other index changed.
C17_DropLeavesOtherIndices ==
    (entry = "startDropIndices")
        => /\ \A x \in IndexNames \ DropTargets : es[x] = prev.es[x]
           /\ (pc = "returned" /\ failure = "none")
                 => \A x \in DropTargets : ~es[x].exists
           /\ mongo \in MongoStates

C17_Witness ==
    /\ entry = "startDropIndices"
    /\ pc = "returned"
    /\ failure = "none"
    /\ excludedCollections = {"pages"}
    /\ Listed("pages") /\ Listed("Orders")
    /\ es[getPrefix(option.prefix, "pages")].exists
    /\ prev.es[getPrefix(option.prefix, "Orders")].exists
    /\ ~es[getPrefix(option.prefix, "Orders")].exists

\* C18: a fatal failure of the snapshot step inside startSync stops the
\* synchronisation: the change subscription is never opened, startSync
\* throws when the debug flag is set and does not throw when it is not.
C18_SnapshotFailureStopsSync ==
    (entry = "startSync" /\ option.initialSync
     /\ (failedAt > 0 \/ failure = "list"))
        => /\ sub = "none"
           /\ promise = "none"
           /\ option.debug => pc = "thrown"
           /\ ~option.debug => pc # "thrown"

\* The positions of the response items that carry an error, and the place
\* of such an item among them.
Errored(items) == {p \in 1..Len(items) : items[p].error}
Rank(items, p) == Cardinality({q \in Errored(items) : q <= p})

\* C19: the error records logged for a bulk response are exactly one per
\* response item that carries an error, in item order; the record of item p
\* holds the p-th document of the batch (without its _id), the index action
\* built for that document, and the item's status and error. Items without
\* an error produce no record.
C19_ErrorRecordsMatchItems ==
    \A k \in 1..Len(Listing) :
        (report[k].state = "done")
        => LET items == report[k].items
               body == report[k].body
               recs == report[k].records
               x == getPrefix(option.prefix, collectionsName[k])
           IN  /\ Len(items) = Len(body)
               /\ Len(recs) = Cardinality(Errored(items))
               /\ \A p \in Errored(items) :
                     recs[Rank(items, p)] =
                        [status |-> items[p].status,
                         error |-> items[p].error,
                         operation |-> [kind |-> "action", _index |-> x,
                                        _id |-> toString(body[p]._id),
                                        fields |-> NoFields],
                         document |-> [kind |-> "document", _index |-> x,
                                       _id |-> NoId, fields |-> body[p].fields]]

C19_Witness ==
    /\ report[1].state = "done"
    /\ Len(report[1].items) = 2
    /\ ~report[1].items[1].error
    /\ report[1].items[2].error
    /\ Len(report[1].records) = 1
    /\ report[1].records[1].operation._id = toString(Num0)
    /\ report[1].records[1].document.fields = FieldsB

\* startSync has returned to its caller, normally or by throwing.
StartSyncOver == entry = "startSync" /\ pc \in {"returned", "thrown"}

\* C20: every change event the feed delivers is passed to the translator
\* exactly once, whether or not initWatcher's promise has settled and
\* whether or not an earlier event failed; and once startSync has returned,
\* no later event changes how it returned, the settled promise, or the
\* error its catch block saw.
C20_EveryEventTranslatedOnce ==
    /\ [](translated = delivered)
    /\ [][StartSyncOver
            => (pc' = pc /\ promise' = promise /\ failure' = failure
                /\ (delivered' # delivered => translated' = translated + 1))]_vars

C20_Witness ==
    /\ entry = "startSync"
    /\ pc = "returned"
    /\ promise = "resolved"
    /\ failure = "none"
    /\ delivered = 2
    /\ translated = 2
    /\ inflight = <<>>
    /\ last.issued
    /\ last.outcome = "throw"

====
